---- MODULE Spec2Model ----
(***************************************************************************)
(* Model of tabs/pipe_system.py: the "Sistema de Tubulacoes" tab of the    *)
(* pipe-flow simulator.  The state is the session's segment list           *)
(* (st.session_state.pipes), the locals of render_pipe_system_tab while    *)
(* its propagation loop runs, and what the run put on the screen.          *)
(*                                                                         *)
(* One script run of the tab is one of                                     *)
(*   AddSegment     the run in which "Adicionar Trecho" was clicked,       *)
(*   RemoveLast     the run in which "Remover Ultimo" was clicked,         *)
(*   BeginRender    a run with no click, up to the start of the loop,      *)
(*   ProcessPipe    one iteration of the loop over the segments,           *)
(*   DisplayResults the display calls after the loop.                      *)
(*                                                                         *)
(* Units.  The code computes in floating point; the model uses integers:   *)
(* heads in m, velocities in cm/s, gravity in cm/s^2, so a pressure is in  *)
(* hundredths of a pascal.  calculate_pipe_losses (utils/calculations.py)  *)
(* and the sidebar are outside this file: what they hand over is an input, *)
(* drawn from the small sets below.  The flow_rate/velocity derivation of  *)
(* lines 70-77 only feeds calculate_pipe_losses; the model keeps of it the *)
(* read of pipes[0], which fails on an empty list.                         *)
(***************************************************************************)
EXTENDS Integers, Sequences, FiniteSets

VARIABLES
    pipes,                   \* st.session_state.pipes
    pc,                      \* "rerun" | "loop" | "done" | "crashed"
    clicked,                 \* the button whose click caused the pending rerun
    sidebar,                 \* sidebar_data of the current run
    idx,                     \* position of the loop over pipes (1-based)
    current_pressure,        \* line 64
    total_head_loss_system,  \* line 65
    total_length_system,     \* line 66
    pipe_results,            \* line 67
    shown,                   \* <<>> or <<the arguments of _display_system_results>>
    alerts,                  \* the alert-warning blocks _display_velocity_warnings showed
    success,                 \* whether it showed the st.success message
    warnings_ret,            \* what _display_velocity_warnings returned
    error                    \* the exception that ended the run, or "none"

vars == <<pipes, pc, clicked, sidebar, idx, current_pressure,
          total_head_loss_system, total_length_system, pipe_results,
          shown, alerts, success, warnings_ret, error>>

(***************************************************************************)
(* Bounds and inputs                                                       *)
(***************************************************************************)
MaxPipes == 3

\* config.settings (imported at line 5): 9.81 m/s^2, 0.5 m/s, 3 m/s, 20 m/s
GRAVITY == 981
WATER_VELOCITY_MIN == 50
WATER_VELOCITY_MAX == 300
AIR_VELOCITY_MAX == 2000

\* h_total values calculate_pipe_losses may return (a descent, no loss, a loss)
HTotals == {-10, 0, 3}

\* V values it may return: below the water minimum, at the water maximum,
\* between the water and the air maximum, above the air maximum
Velocities == {WATER_VELOCITY_MIN - 1, WATER_VELOCITY_MAX,
               WATER_VELOCITY_MAX + 1, AIR_VELOCITY_MAX + 1}

LossResults == [V : Velocities, h_total : HTotals]

Sidebars == [fluid : {[fluid_type |-> "Agua", rho |-> 998],
                      [fluid_type |-> "Ar", rho |-> 1],
                      [fluid_type |-> "Oleo", rho |-> 850]},
             pressure_inlet : {10132500, 30000000}]

NoSidebar == [fluid |-> [fluid_type |-> "", rho |-> 0], pressure_inlet |-> 0]

(***************************************************************************)
(* The segment list                                                        *)
(***************************************************************************)
\* the dict appended at lines 18-36 (diameter in mm)
NewSegment(new_id) ==
    [id |-> new_id, diameter |-> 100, length |-> 100, elevation_change |-> 0]

IdsOf(ps) == {ps[i].id : i \in DOMAIN ps}

MaxOf(S) == CHOOSE m \in S : \A x \in S : x <= m

NewIdByLength(ps) == Len(ps) + 1

\* line 17: max([p['id'] for p in pipes]) + 1
NewId(ps) == MaxOf(IdsOf(ps)) + 1

AppendSegmentInFront(ps, seg) == <<seg>> \o ps

\* line 18: pipes.append(...)
AppendSegment(ps, seg) == Append(ps, seg)

RemoveEnabledWhenNonEmpty(ps) == Len(ps) > 0

\* line 40: the remove button exists only when len(pipes) > 1
RemoveEnabled(ps) == Len(ps) > 1

\* line 42: pipes.pop()
PopLast(ps) == SubSeq(ps, 1, Len(ps) - 1)

\* a session as the application starts it, and one with an edited, renumbered list
InitialPipes ==
    { <<NewSegment(1)>>,
      <<[id |-> 3, diameter |-> 50, length |-> 40, elevation_change |-> -10],
        NewSegment(1)>> }

(***************************************************************************)
(* The propagation loop                                                    *)
(***************************************************************************)
PressureLossWithoutRho(h_total, rho) == h_total * GRAVITY

\* line 84
PressureLoss(h_total, rho) == h_total * rho * GRAVITY

PressureOutAdded(current, pressure_loss) == current + pressure_loss

\* line 85
PressureOut(current, pressure_loss) == current - pressure_loss

\* lines 87-100 (the fields the tab computes or reads itself)
SegmentResult(pipe, result, current, pressure_out) ==
    [id |-> pipe.id, V |-> result.V, h_total |-> result.h_total,
     P_in |-> current, P_out |-> pressure_out]

AccumulateHeadLossOverwrite(total, h_total) == h_total

\* line 102
AccumulateHeadLoss(total, h_total) == total + h_total

CarryPressureStale(current, pressure_out) == current

\* line 104
CarryPressure(current, pressure_out) == pressure_out

FinalOutletOfFirst(results) == results[1].P_out

\* line 108: pipe_results[-1]['P_out']
FinalOutlet(results) == results[Len(results)].P_out

(***************************************************************************)
(* _display_velocity_warnings                                              *)
(***************************************************************************)
FindingInclusive(result, fluid_type) ==
    IF fluid_type = "Agua"
    THEN IF result.V < WATER_VELOCITY_MIN
         THEN <<[id |-> result.id, kind |-> "low", V |-> result.V,
                 limit |-> WATER_VELOCITY_MIN]>>
         ELSE IF result.V >= WATER_VELOCITY_MAX
              THEN <<[id |-> result.id, kind |-> "high", V |-> result.V,
                      limit |-> WATER_VELOCITY_MAX]>>
              ELSE <<>>
    ELSE IF fluid_type = "Ar"
         THEN IF result.V > AIR_VELOCITY_MAX
              THEN <<[id |-> result.id, kind |-> "high", V |-> result.V,
                      limit |-> AIR_VELOCITY_MAX]>>
              ELSE <<>>
         ELSE <<>>

\* lines 172-181: the warning one result adds, if any
Finding(result, fluid_type) ==
    IF fluid_type = "Agua"
    THEN IF result.V < WATER_VELOCITY_MIN
         THEN <<[id |-> result.id, kind |-> "low", V |-> result.V,
                 limit |-> WATER_VELOCITY_MIN]>>
         ELSE IF result.V > WATER_VELOCITY_MAX
              THEN <<[id |-> result.id, kind |-> "high", V |-> result.V,
                      limit |-> WATER_VELOCITY_MAX]>>
              ELSE <<>>
    ELSE IF fluid_type = "Ar"
         THEN IF result.V > AIR_VELOCITY_MAX
              THEN <<[id |-> result.id, kind |-> "high", V |-> result.V,
                      limit |-> AIR_VELOCITY_MAX]>>
              ELSE <<>>
         ELSE <<>>

RECURSIVE Warnings(_, _)
\* lines 170-181
Warnings(results, fluid_type) ==
    IF results = <<>> THEN <<>>
    ELSE Finding(Head(results), fluid_type) \o Warnings(Tail(results), fluid_type)

\* the value of a call that has not happened, and of one that ends without
\* a return statement (line 187 is the function's last)
NotCalled == [kind |-> "unset", findings |-> <<>>]

ReturnsNone == [kind |-> "None", findings |-> <<>>]

(***************************************************************************)
(* The script runs                                                         *)
(***************************************************************************)
\* what a run starts from: no locals, an empty screen
FreshRun ==
    /\ sidebar' = NoSidebar
    /\ idx' = 0
    /\ current_pressure' = 0
    /\ total_head_loss_system' = 0
    /\ total_length_system' = 0
    /\ pipe_results' = <<>>
    /\ shown' = <<>>
    /\ alerts' = <<>>
    /\ success' = FALSE
    /\ warnings_ret' = NotCalled

Interactive == pc \in {"done", "crashed"}

\* lines 16-37: max() of an empty list raises ValueError
AddSegment ==
    /\ Interactive
    /\ Len(pipes) < MaxPipes
    /\ FreshRun
    /\ IF pipes = <<>>
       THEN /\ error' = "ValueError"
            /\ pc' = "crashed"
            /\ clicked' = "none"
            /\ UNCHANGED pipes
       ELSE /\ pipes' = AppendSegment(pipes, NewSegment(NewId(pipes)))
            /\ error' = "none"
            /\ pc' = "rerun"
            /\ clicked' = "add"

\* lines 40-43
RemoveLast ==
    /\ Interactive
    /\ RemoveEnabled(pipes)
    /\ FreshRun
    /\ pipes' = PopLast(pipes)
    /\ error' = "none"
    /\ pc' = "rerun"
    /\ clicked' = "remove"

\* lines 45-77: a run in which no button fired; pipes[0] of an empty list
\* raises IndexError at line 71 or 75
BeginRender ==
    /\ pc = "rerun" \/ Interactive
    /\ clicked' = "none"
    /\ UNCHANGED pipes
    /\ idx' = 1
    /\ total_head_loss_system' = 0
    /\ total_length_system' = 0
    /\ pipe_results' = <<>>
    /\ shown' = <<>>
    /\ alerts' = <<>>
    /\ success' = FALSE
    /\ warnings_ret' = NotCalled
    /\ \E s \in Sidebars :
          /\ sidebar' = s
          /\ current_pressure' = s.pressure_inlet
    /\ IF pipes = <<>>
       THEN error' = "IndexError" /\ pc' = "crashed"
       ELSE error' = "none" /\ pc' = "loop"

\* lines 80-104: one iteration
ProcessPipe ==
    /\ pc = "loop"
    /\ idx <= Len(pipes)
    /\ \E result \in LossResults :
          LET pipe == pipes[idx]
              pressure_loss == PressureLoss(result.h_total, sidebar.fluid.rho)
              pressure_out == PressureOut(current_pressure, pressure_loss)
          IN /\ pipe_results' = Append(pipe_results,
                     SegmentResult(pipe, result, current_pressure, pressure_out))
             /\ total_head_loss_system' =
                     AccumulateHeadLoss(total_head_loss_system, result.h_total)
             /\ total_length_system' = total_length_system + pipe.length
             /\ current_pressure' = CarryPressure(current_pressure, pressure_out)
    /\ idx' = idx + 1
    /\ UNCHANGED <<pipes, pc, clicked, sidebar, shown, alerts, success,
                   warnings_ret, error>>

\* lines 107-118: _display_system_results, then _display_velocity_warnings
\* (lines 183-187: each warning is shown, or the success message; no return)
DisplayResults ==
    /\ pc = "loop"
    /\ idx > Len(pipes)
    /\ shown' = <<[total_head_loss |-> total_head_loss_system,
                   total_length |-> total_length_system,
                   pressure_in |-> sidebar.pressure_inlet,
                   pressure_out |-> FinalOutlet(pipe_results)]>>
    /\ alerts' = Warnings(pipe_results, sidebar.fluid.fluid_type)
    /\ success' = (alerts' = <<>>)
    /\ warnings_ret' = ReturnsNone
    /\ pc' = "done"
    /\ UNCHANGED <<pipes, clicked, sidebar, idx, current_pressure,
                   total_head_loss_system, total_length_system, pipe_results,
                   error>>

Locals0 ==
    /\ pc = "rerun"
    /\ clicked = "none"
    /\ sidebar = NoSidebar
    /\ idx = 0
    /\ current_pressure = 0
    /\ total_head_loss_system = 0
    /\ total_length_system = 0
    /\ pipe_results = <<>>
    /\ shown = <<>>
    /\ alerts = <<>>
    /\ success = FALSE
    /\ warnings_ret = NotCalled
    /\ error = "none"

\* the session starts with a non-empty list of distinct ids
Init == pipes \in InitialPipes /\ Locals0

\* the tab handed any list, the empty one included
InitAnyChain == pipes \in InitialPipes \cup {<<>>} /\ Locals0

Next == AddSegment \/ RemoveLast \/ BeginRender \/ ProcessPipe \/ DisplayResults

Spec == Init /\ [][Next]_vars

SpecAnyChain == InitAnyChain /\ [][Next]_vars

(***************************************************************************)
(* Properties                                                              *)
(***************************************************************************)
RECURSIVE SumHTotal(_)
SumHTotal(results) ==
    IF results = <<>> THEN 0
    ELSE Head(results).h_total + SumHTotal(Tail(results))

Rho == sidebar.fluid.rho

\* C1: in the propagation loop, the recorded P_out of every segment result
\* but the last equals the recorded P_in of the next one.
C1_PressurePropagation ==
    \A i \in 1..(Len(pipe_results) - 1) :
        pipe_results[i].P_out = pipe_results[i + 1].P_in

C1_Witness ==
    /\ Len(pipe_results) = 3
    /\ pipe_results[1].h_total = 3
    /\ pipe_results[2].h_total = -10
    /\ pipe_results[1].P_out # pipe_results[1].P_in
    /\ pipe_results[2].P_out # pipe_results[2].P_in

\* C2: at every loop step the running total equals the sum of h_total over
\* the segments processed so far, and the total handed to the result display
\* equals the sum of h_total over all recorded segment results.
C2_ChainConservation ==
    /\ total_head_loss_system = SumHTotal(pipe_results)
    /\ shown # <<>> =>
          /\ Len(pipe_results) = Len(pipes)
          /\ shown[1].total_head_loss = SumHTotal(pipe_results)

C2_Witness ==
    /\ pc = "done"
    /\ Len(pipe_results) = 3
    /\ pipe_results[1].h_total = 3
    /\ pipe_results[2].h_total = 3
    /\ pipe_results[3].h_total = -10
    /\ shown[1].total_head_loss = -4

\* C3: every recorded P_out equals the recorded P_in minus h_total * rho * g;
\* a segment with a negative h_total has P_out above P_in by rho * g * |h_total|
\* and is recorded as a result of a run that raised no error.
C3_OutletPressure ==
    \A i \in DOMAIN pipe_results :
        LET r == pipe_results[i]
        IN /\ r.P_out = r.P_in - r.h_total * Rho * GRAVITY
           /\ r.h_total < 0 =>
                 /\ r.P_out - r.P_in = Rho * GRAVITY * (0 - r.h_total)
                 /\ r.P_out > r.P_in
           /\ error = "none"

C3_Witness ==
    /\ pc = "done"
    /\ Len(pipe_results) = 2
    /\ pipe_results[1].h_total = 0
    /\ pipe_results[2].h_total = -10
    /\ Rho = 998
    /\ pipe_results[2].P_out = pipe_results[2].P_in + 998 * GRAVITY * 10

RenderedEmptyChain == pipes = <<>> /\ pc = "crashed" /\ sidebar # NoSidebar

\* C4: a propagation over an empty segment sequence fails with a DomainError
\* and leaves no system totals, no segment results and no velocity findings.
C4_EmptyChainDomainError ==
    RenderedEmptyChain =>
        /\ error = "DomainError"
        /\ shown = <<>>
        /\ pipe_results = <<>>
        /\ alerts = <<>>

\* C5: after any sequence of add and remove clicks the segment list has at
\* least one element, and no run fails to find its first segment.
C5_NeverEmpty == Len(pipes) >= 1 /\ error = "none"

C5_Witness == clicked = "remove" /\ Len(pipes) = 1 /\ pipes[1].id = 1

AddStep == clicked = "none" /\ clicked' = "add"

RemoveStep == clicked = "none" /\ clicked' = "remove"

\* C6: an add appends exactly one segment and leaves the others (id, fields,
\* position) as they were; a remove deletes exactly the last one; no step
\* changes the relative order of two segments present before and after it.
C6_OrderPreserved ==
    [][ /\ AddStep =>
              /\ Len(pipes') = Len(pipes) + 1
              /\ \A i \in DOMAIN pipes : pipes'[i] = pipes[i]
        /\ RemoveStep =>
              /\ Len(pipes') = Len(pipes) - 1
              /\ \A i \in DOMAIN pipes' : pipes'[i] = pipes[i]
        /\ pipes' # pipes =>
              \A i, j \in DOMAIN pipes' : \A k, l \in DOMAIN pipes :
                 (i < j /\ pipes[k] = pipes'[i] /\ pipes[l] = pipes'[j]) => k < l
      ]_vars

C6_Witness ==
    /\ clicked = "remove"
    /\ Len(pipes) = 2
    /\ pipes[1] = [id |-> 3, diameter |-> 50, length |-> 40, elevation_change |-> -10]
    /\ pipes[2] = NewSegment(1)

\* C7: when every recorded h_total is non-negative, every P_out is at most its
\* P_in, the recorded P_in values do not increase in segment order, and the
\* final outlet pressure shown is at most the inlet pressure.
C7_PressureNonIncreasing ==
    (\A i \in DOMAIN pipe_results : pipe_results[i].h_total >= 0) =>
        /\ \A i \in DOMAIN pipe_results :
              pipe_results[i].P_out <= pipe_results[i].P_in
        /\ \A i, j \in DOMAIN pipe_results :
              i < j => pipe_results[j].P_in <= pipe_results[i].P_in
        /\ shown # <<>> => shown[1].pressure_out <= shown[1].pressure_in

C7_Witness ==
    /\ pc = "done"
    /\ Len(pipe_results) = 3
    /\ pipe_results[1].h_total = 3
    /\ pipe_results[2].h_total = 0
    /\ pipe_results[3].h_total = 3
    /\ shown[1].pressure_out < shown[1].pressure_in

FluidType == sidebar.fluid.fluid_type

BelowMinimum(V) == FluidType = "Agua" /\ V < WATER_VELOCITY_MIN

AboveMaximum(V) ==
    \/ FluidType = "Agua" /\ V > WATER_VELOCITY_MAX
    \/ FluidType = "Ar" /\ V > AIR_VELOCITY_MAX

OutIndices ==
    {i \in DOMAIN pipe_results :
        BelowMinimum(pipe_results[i].V) \/ AboveMaximum(pipe_results[i].V)}

KthOut(k) ==
    CHOOSE i \in OutIndices : Cardinality({j \in OutIndices : j <= i}) = k

\* one finding per out-of-range segment result, in segment order, and none
\* for a result within range
FindingsInOrder(fs) ==
    /\ Len(fs) = Cardinality(OutIndices)
    /\ \A k \in DOMAIN fs :
          LET r == pipe_results[KthOut(k)]
          IN /\ fs[k].id = r.id
             /\ fs[k].V = r.V
             /\ fs[k].kind = (IF BelowMinimum(r.V) THEN "low" ELSE "high")

ExactlyOneClass ==
    \A i \in DOMAIN pipe_results :
        ~(BelowMinimum(pipe_results[i].V) /\ AboveMaximum(pipe_results[i].V))

C9_DistinctIds ==
    /\ \A i, j \in DOMAIN pipes : i # j => pipes[i].id # pipes[j].id
    /\ clicked = "add" =>
          LET n == Len(pipes)
          IN /\ n >= 2
             /\ \A i \in 1..(n - 1) : pipes[i].id < pipes[n].id
             /\ \E i \in 1..(n - 1) : pipes[i].id = pipes[n].id - 1

C9_Witness ==
    /\ clicked = "add"
    /\ Len(pipes) = 3
    /\ pipes[1].id = 3
    /\ pipes[2].id = 1
    /\ pipes[3].id = 4

\* C10: the first recorded P_in is the supplied inlet pressure, and the final
\* outlet pressure shown is the last recorded P_out, which is the inlet
\* pressure minus rho * g * (the system total head loss).
C10_InletAndOutlet ==
    /\ pipe_results # <<>> => pipe_results[1].P_in = sidebar.pressure_inlet
    /\ shown # <<>> =>
          /\ shown[1].pressure_in = sidebar.pressure_inlet
          /\ shown[1].pressure_out = pipe_results[Len(pipe_results)].P_out
          /\ shown[1].pressure_out =
                sidebar.pressure_inlet - Rho * GRAVITY * shown[1].total_head_loss

C10_Witness ==
    /\ pc = "done"
    /\ Len(pipe_results) = 3
    /\ pipe_results[1].h_total = 3
    /\ pipe_results[2].h_total = -10
    /\ pipe_results[3].h_total = 3
    /\ shown[1].pressure_out # pipe_results[1].P_out
    /\ shown[1].pressure_out = sidebar.pressure_inlet + Rho * GRAVITY * 4

====
